---- MODULE Spec2Model ----
(***************************************************************************)
(* Model of scratchdir.ScratchDir (src/scratchdir.py): the lifecycle of a  *)
(* scratch directory (construction, setup, teardown, scopes, children),    *)
(* its minting operations, and the part of the filesystem and of the       *)
(* tempfile module they act on.                                            *)
(*                                                                         *)
(* A path is a non-empty sequence of components below the filesystem root; *)
(* a component is a triple <<prefix, token, suffix>>, the shape of the     *)
(* names tempfile generates (prefix + random characters + suffix).  A name *)
(* chosen by a caller has token 0.  The empty sequence is the empty string *)
(* '' (DEFAULT_WD); NoneVal is Python's None.                              *)
(***************************************************************************)
EXTENDS Integers, Sequences, FiniteSets, TLC

\* ---------------------------------------------------------------- bounds
MaxTok == 1       \* distinct random tokens tempfile can draw
MaxFiles == 1     \* entries the minting calls and the caller may have on disk at a time

\* the instances: the space the caller constructs, and the one its child() returns
Inst == {1, 2}
Tok == 1..MaxTok

\* ------------------------------------------------------- values and paths
DEFAULT_WD == <<>>
TEMPLATE == "tmp"
SCRATCH_SUFFIX == ".scratchdir"
NoneVal == << <<"None", 0, "">> >>

DefaultTmp == << <<"tmp", 0, "">> >>
TestRoot == << <<"pytest", 0, "">> >>
Foo == <<"foo", 0, "">>

PreWd == Append(TestRoot, <<"pre", 0, "">>)

Roots == {TestRoot}

IsPrefix(p, q) == Len(p) <= Len(q) /\ SubSeq(q, 1, Len(p)) = p
IsPardir(pardir, subdir) == IsPrefix(pardir, subdir) /\ Len(pardir) < Len(subdir)
Dirname(p) == SubSeq(p, 1, Len(p) - 1)

Truthy(v) == v # DEFAULT_WD /\ v # NoneVal

\* the tests' helper: pardir is among the parents of subdir ('' is the path '.',
\* no parent of an absolute path)
is_pardir(pardir, subdir) == Truthy(pardir) /\ Truthy(subdir) /\ IsPardir(pardir, subdir)

VARIABLES
    disk,      \* entries on disk: [path, kind ("dir"/"file"), by (the call that made
               \* it), h (the handle named() returned for it: "none", or while it is
               \* open "delete" or "keep", its delete flag)]
    tempdir,   \* tempfile.tempdir, the process-wide temp root
    made,      \* made[i]: instance i has been constructed
    prefix, suffix, base, root, wd,   \* the attributes of each instance
    parent,    \* parent[i]: the instance whose child() returned i, 0 if none
    scope,     \* scope[i]: "in" between __enter__ and __exit__ of `with i`
    last,      \* the last call: what was called, on what, and how it ended
    used,      \* used[i]: the working directories teardown has deleted for instance i
    pc         \* pc[i]: where a thread running setup() on instance i stands: "idle",
               \* or "wrote" between the write of tempfile.tempdir and mkdtemp

vars == <<disk, tempdir, made, prefix, suffix, base, root, wd, parent, scope, last, used, pc>>

Paths(d) == {e.path : e \in d}
Exists(p) == p \in Paths(disk)
IsDir(p) == \E e \in disk : e.path = p /\ e.kind = "dir"
Under(d, p) == {e \in d : IsPardir(p, e.path)}
Entry(p, k, b) == [path |-> p, kind |-> k, by |-> b, h |-> "none"]

\* an argument that is a path or None: os.path.isabs(arg) and its components
NoArg == [none |-> TRUE, abs |-> FALSE, segs |-> <<>>]
Rel(s) == [none |-> FALSE, abs |-> FALSE, segs |-> s]
Abs(s) == [none |-> FALSE, abs |-> TRUE, segs |-> s]

\* the record of a call: pre is wd before the call and live whether it was on
\* disk, arg the dir argument, ret the path returned, act the boolean returned,
\* yield the instance returned (0 for none), fd what became of the descriptor,
\* calls the methods of the instance the call invoked, exc whether the scope
\* body raised, had the origin and handle of the entries under wd before the call
Call(o, i) ==
    [op |-> o, inst |-> i, out |-> "ok", pre |-> wd[i], live |-> wd[i] \in Paths(disk),
     arg |-> NoArg, ret |-> DEFAULT_WD, act |-> FALSE, yield |-> 0, fd |-> "none",
     calls |-> <<>>, exc |-> FALSE, had |-> {<<e.by, e.h>> : e \in Under(disk, wd[i])}]

Raise(c, err) == [c EXCEPT !.out = err]

NoCall == [op |-> "none", inst |-> 1, out |-> "ok", pre |-> DEFAULT_WD, live |-> FALSE,
           arg |-> NoArg, ret |-> DEFAULT_WD, act |-> FALSE, yield |-> 0, fd |-> "none",
           calls |-> <<>>, exc |-> FALSE, had |-> {}]

\* the caller has taken the outcome of its last call and may make the next one
Idle == last = NoCall

\* ------------------------------------------------------------ is_active
\* is_active remembering that setup was called, without looking at the disk
is_active_cached(i) == Truthy(wd[i])

is_active(i) == Truthy(wd[i]) /\ Exists(wd[i])

IsActive(i) ==
    /\ Idle
    /\ UNCHANGED <<used, pc>>
    /\ made[i]
    /\ last' = [Call("is_active", i) EXCEPT !.act = is_active(i)]
    /\ UNCHANGED <<disk, tempdir, made, prefix, suffix, base, root, wd, parent, scope>>

\* the decorator checking only that wd is set
requires_activation_wd_only(i) == Truthy(wd[i])

requires_activation(i) == is_active(i)

\* ------------------------------------------------------------- tempfile
\* tempfile.gettempdir(): the value of tempfile.tempdir, computed and stored
\* on first use when it is None
GetTempDir(td) == IF td = NoneVal THEN DefaultTmp ELSE td

\* the names tempfile can generate in directory d that are not taken
FreeNames(d, pre, suf) == {c \in {<<pre, t, suf>> : t \in Tok} : ~Exists(Append(d, c))}

\* room left on disk for one more entry
Room == Cardinality({e \in disk : e.by \notin {"os", "setup"}}) < MaxFiles

\* why tempfile cannot create an entry in directory d, "ok" if it can
MkErr(d, pre, suf) ==
    IF ~Exists(d) THEN "FileNotFoundError"
    ELSE IF ~IsDir(d) THEN "NotADirectoryError"
    ELSE IF FreeNames(d, pre, suf) = {} THEN "FileExistsError"
    ELSE "ok"

\* ----------------------------------------------------- __init__ and child
New(j, pre, suf, b, r, w, par) ==
    /\ ~made[j]
    /\ \A k \in Inst : k < j => made[k]
    /\ made' = [made EXCEPT ![j] = TRUE]
    /\ prefix' = [prefix EXCEPT ![j] = pre]
    /\ suffix' = [suffix EXCEPT ![j] = suf]
    /\ base' = [base EXCEPT ![j] = b]
    /\ root' = [root EXCEPT ![j] = r]
    /\ wd' = [wd EXCEPT ![j] = w]
    /\ parent' = [parent EXCEPT ![j] = par]

\* the caller constructs one space; the others are its descendants
Construct(j, r, w) ==
    /\ Idle
    /\ UNCHANGED <<used, pc>>
    /\ j = 1
    /\ New(j, "", SCRATCH_SUFFIX, NoneVal, r, w, 0)
    /\ last' = [NoCall EXCEPT !.op = "init", !.inst = j, !.pre = w, !.live = Exists(w)]
    /\ UNCHANGED <<disk, tempdir, scope>>

\* child() not handing its wd to the child as base
ChildWithoutBase(i, pre) ==
    /\ Idle
    /\ UNCHANGED <<used, pc>>
    /\ made[i]
    /\ IF ~requires_activation(i)
       THEN /\ last' = Raise(Call("child", i), "ScratchDirInactiveError")
            /\ UNCHANGED <<made, prefix, suffix, base, root, wd, parent>>
       ELSE \E j \in Inst :
                /\ New(j, pre, SCRATCH_SUFFIX, NoneVal, NoneVal, DEFAULT_WD, i)
                /\ last' = [Call("child", i) EXCEPT !.yield = j]
    /\ UNCHANGED <<disk, tempdir, scope>>

\* the child gets the default root, tempfile.tempdir as it was when the class
\* was defined: None
Child(i, pre) ==
    /\ Idle
    /\ UNCHANGED <<used, pc>>
    /\ made[i]
    /\ IF ~requires_activation(i)
       THEN /\ last' = Raise(Call("child", i), "ScratchDirInactiveError")
            /\ UNCHANGED <<made, prefix, suffix, base, root, wd, parent>>
       ELSE \E j \in Inst :
                /\ New(j, pre, SCRATCH_SUFFIX, wd[i], NoneVal, DEFAULT_WD, i)
                /\ last' = [Call("child", i) EXCEPT !.yield = j]
    /\ UNCHANGED <<disk, tempdir, scope>>

\* ------------------------------------------------------ setup, teardown
\* setup creating a new directory on every call, whether or not wd is set
setup_always(i, c) ==
    LET d == IF base[i] = NoneVal THEN GetTempDir(root[i]) ELSE base[i]
        err == MkErr(d, prefix[i], suffix[i])
    IN /\ tempdir' = IF base[i] = NoneVal THEN d ELSE root[i]
       /\ IF err # "ok"
          THEN /\ last' = Raise(c, err)
               /\ UNCHANGED <<disk, wd>>
          ELSE \E n \in FreeNames(d, prefix[i], suffix[i]) :
                   /\ disk' = disk \cup {Entry(Append(d, n), "dir", "setup")}
                   /\ wd' = [wd EXCEPT ![i] = Append(d, n)]
                   /\ last' = [c EXCEPT !.ret = Append(d, n)]

\* setup taking a name from tempfile.mktemp, which creates nothing
setup_mktemp(i, c) ==
    IF Truthy(wd[i])
    THEN /\ tempdir' = root[i]
         /\ last' = c
         /\ UNCHANGED <<disk, wd>>
    ELSE LET d == IF base[i] = NoneVal THEN GetTempDir(root[i]) ELSE base[i]
         IN /\ tempdir' = IF base[i] = NoneVal THEN d ELSE root[i]
            /\ \E n \in {<<prefix[i], t, suffix[i]>> : t \in Tok} :
                   /\ ~Exists(Append(d, n))
                   /\ wd' = [wd EXCEPT ![i] = Append(d, n)]
                   /\ last' = [c EXCEPT !.ret = Append(d, n)]
            /\ UNCHANGED disk

setup(i, c) ==
    IF Truthy(wd[i])
    THEN /\ tempdir' = root[i]
         /\ last' = c
         /\ UNCHANGED <<disk, wd>>
    ELSE LET d == IF base[i] = NoneVal THEN GetTempDir(root[i]) ELSE base[i]
             err == MkErr(d, prefix[i], suffix[i])
         IN /\ tempdir' = IF base[i] = NoneVal THEN d ELSE root[i]
            /\ IF err # "ok"
               THEN /\ last' = Raise(c, err)
                    /\ UNCHANGED <<disk, wd>>
               ELSE \E n \in FreeNames(d, prefix[i], suffix[i]) :
                        /\ disk' = disk \cup {Entry(Append(d, n), "dir", "setup")}
                        /\ wd' = [wd EXCEPT ![i] = Append(d, n)]
                        /\ last' = [c EXCEPT !.ret = Append(d, n)]

\* the sets of entries shutil.rmtree may have removed when it fails part-way
Partial(p) == {S \in SUBSET Under(disk, p) :
                 \A e \in S : \A f \in Under(disk, p) : IsPardir(e.path, f.path) => f \in S}

\* teardown deleting the tree and leaving wd pointing at it
teardown_keep_wd(i, c) ==
    IF ~requires_activation(i)
    THEN /\ last' = Raise(c, "ScratchDirInactiveError")
         /\ UNCHANGED <<disk, wd>>
    ELSE /\ disk' = {e \in disk : ~IsPrefix(wd[i], e.path)}
         /\ last' = c
         /\ UNCHANGED wd

\* teardown forgetting wd without deleting it
teardown_forget(i, c) ==
    IF ~requires_activation(i)
    THEN /\ last' = Raise(c, "ScratchDirInactiveError")
         /\ UNCHANGED <<disk, wd>>
    ELSE /\ wd' = [wd EXCEPT ![i] = DEFAULT_WD]
         /\ last' = c
         /\ UNCHANGED disk

\* teardown deleting wd and what is directly in it, entry by entry, and not
\* what lies deeper
teardown_shallow(i, c) ==
    IF ~requires_activation(i)
    THEN /\ last' = Raise(c, "ScratchDirInactiveError")
         /\ UNCHANGED <<disk, wd>>
    ELSE /\ disk' = {e \in disk : ~IsPrefix(wd[i], e.path) \/ Len(e.path) > Len(wd[i]) + 1}
         /\ wd' = [wd EXCEPT ![i] = DEFAULT_WD]
         /\ last' = c

\* teardown resetting wd in a finally clause, whether or not rmtree raised
teardown_finally(i, c) ==
    IF ~requires_activation(i)
    THEN /\ last' = Raise(c, "ScratchDirInactiveError")
         /\ UNCHANGED <<disk, wd>>
    ELSE /\ wd' = [wd EXCEPT ![i] = DEFAULT_WD]
         /\ \/ /\ disk' = {e \in disk : ~IsPrefix(wd[i], e.path)}
               /\ last' = c
            \/ \E S \in Partial(wd[i]) :
                   /\ disk' = disk \ S
                   /\ last' = Raise(c, "OSError")

teardown(i, c) ==
    IF ~requires_activation(i)
    THEN /\ last' = Raise(c, "ScratchDirInactiveError")
         /\ UNCHANGED <<disk, wd>>
    ELSE IF ~Exists(wd[i])
    THEN /\ last' = Raise(c, "FileNotFoundError")
         /\ UNCHANGED <<disk, wd>>
    ELSE \/ /\ disk' = {e \in disk : ~IsPrefix(wd[i], e.path)}
            /\ wd' = [wd EXCEPT ![i] = DEFAULT_WD]
            /\ last' = c
         \/ \E S \in Partial(wd[i]) :
                /\ disk' = disk \ S
                /\ last' = Raise(c, "OSError")
                /\ UNCHANGED wd

Setup(i) ==
    /\ Idle
    /\ UNCHANGED <<used, pc>>
    /\ made[i]
    /\ setup(i, Call("setup", i))
    /\ UNCHANGED <<made, prefix, suffix, base, root, parent, scope>>

Teardown(i) ==
    /\ Idle
    /\ UNCHANGED <<used, pc>>
    /\ made[i]
    /\ teardown(i, Call("teardown", i))
    /\ UNCHANGED <<tempdir, made, prefix, suffix, base, root, parent, scope>>

\* --------------------------------------------------- __enter__, __exit__
Enter(i) ==
    /\ Idle
    /\ UNCHANGED <<used, pc>>
    /\ made[i]
    /\ scope[i] = "out"
    /\ setup(i, [Call("enter", i) EXCEPT !.calls = <<"setup">>, !.yield = i])
    /\ scope' = IF last'.out = "ok" THEN [scope EXCEPT ![i] = "in"] ELSE scope
    /\ UNCHANGED <<made, prefix, suffix, base, root, parent>>

\* __exit__ tearing down only when the body did not raise
ExitUnlessRaised(i, exc) ==
    /\ Idle
    /\ UNCHANGED <<used, pc>>
    /\ made[i]
    /\ scope[i] = "in"
    /\ IF exc
       THEN /\ last' = [Call("exit", i) EXCEPT !.exc = exc]
            /\ UNCHANGED <<disk, wd>>
       ELSE teardown(i, [Call("exit", i) EXCEPT !.calls = <<"teardown">>, !.exc = exc])
    /\ scope' = [scope EXCEPT ![i] = "out"]
    /\ UNCHANGED <<tempdir, made, prefix, suffix, base, root, parent>>

Exit(i, exc) ==
    /\ Idle
    /\ UNCHANGED <<used, pc>>
    /\ made[i]
    /\ scope[i] = "in"
    /\ teardown(i, [Call("exit", i) EXCEPT !.calls = <<"teardown">>, !.exc = exc])
    /\ scope' = [scope EXCEPT ![i] = "out"]
    /\ UNCHANGED <<tempdir, made, prefix, suffix, base, root, parent>>

\* ------------------------------------------------------------------ join
RECURSIVE os_path_join(_, _)
os_path_join(a, ps) ==
    IF ps = <<>> THEN a
    ELSE os_path_join(IF Head(ps).abs THEN Head(ps).segs ELSE a \o Head(ps).segs, Tail(ps))

\* join dropping the paths it is given
join_wd_only(i, paths) == wd[i]

join(i, paths) == os_path_join(wd[i], SelectSeq(paths, LAMBDA p : ~p.none))

\* the dir arguments callers pass: None, or the name foo relative to wd, which
\* exists only once the caller has created it
DirArgs == {NoArg, Rel(<<Foo>>)}

Join(i, paths) ==
    /\ Idle
    /\ UNCHANGED <<used, pc>>
    /\ made[i]
    /\ last' = IF ~requires_activation(i)
               THEN Raise(Call("join", i), "ScratchDirInactiveError")
               ELSE [Call("join", i) EXCEPT !.ret = join(i, paths)]
    /\ UNCHANGED <<disk, tempdir, made, prefix, suffix, base, root, wd, parent, scope>>

\* ------------------------------------------------------ minting operations
\* the part every file-creating method shares: the activation check, then
\* tempfile creating an entry of the given kind in join(dir), or raising
Mint(i, c, kind, keep, h) ==
    LET d == join(i, <<c.arg>>)
        err == MkErr(d, TEMPLATE, "")
    IN IF ~requires_activation(i)
       THEN /\ last' = Raise(c, "ScratchDirInactiveError")
            /\ UNCHANGED disk
       ELSE IF err # "ok" /\ (keep \/ err # "FileExistsError")
       THEN /\ last' = Raise(c, err)
            /\ UNCHANGED disk
       ELSE IF ~keep
       THEN /\ last' = c
            /\ UNCHANGED disk
       ELSE \E n \in FreeNames(d, TEMPLATE, "") :
                /\ Room
                /\ disk' = disk \cup {[Entry(Append(d, n), kind, c.op) EXCEPT !.h = h]}
                /\ last' = [c EXCEPT !.ret = Append(d, n)]

\* tempfile.TemporaryFile: a file with no name in the directory (O_TMPFILE)
File(i, dir) ==
    /\ Idle
    /\ UNCHANGED <<used, pc>>
    /\ made[i]
    /\ Mint(i, [Call("file", i) EXCEPT !.arg = dir], "file", FALSE, "none")
    /\ UNCHANGED <<tempdir, made, prefix, suffix, base, root, wd, parent, scope>>

Named(i, dir, delete) ==
    /\ Idle
    /\ UNCHANGED <<used, pc>>
    /\ made[i]
    /\ Mint(i, [Call("named", i) EXCEPT !.arg = dir], "file", TRUE,
            IF delete THEN "delete" ELSE "keep")
    /\ UNCHANGED <<tempdir, made, prefix, suffix, base, root, wd, parent, scope>>

\* tempfile.SpooledTemporaryFile: an in-memory buffer; max_size = 0 never rolls
\* over, so dir is kept for a rollover that does not come
Spooled(i, dir) ==
    /\ Idle
    /\ UNCHANGED <<used, pc>>
    /\ made[i]
    /\ last' = IF ~requires_activation(i)
               THEN Raise([Call("spooled", i) EXCEPT !.arg = dir], "ScratchDirInactiveError")
               ELSE [Call("spooled", i) EXCEPT !.arg = dir, !.ret = join(i, <<dir>>)]
    /\ UNCHANGED <<disk, tempdir, made, prefix, suffix, base, root, wd, parent, scope>>

Secure(i, dir, return_fd) ==
    /\ Idle
    /\ UNCHANGED <<used, pc>>
    /\ made[i]
    /\ Mint(i, [Call("secure", i) EXCEPT !.arg = dir,
                                         !.fd = IF return_fd THEN "returned" ELSE "closed"],
            "file", TRUE, "none")
    /\ UNCHANGED <<tempdir, made, prefix, suffix, base, root, wd, parent, scope>>

Directory(i, dir) ==
    /\ Idle
    /\ UNCHANGED <<used, pc>>
    /\ made[i]
    /\ Mint(i, [Call("directory", i) EXCEPT !.arg = dir], "dir", TRUE, "none")
    /\ UNCHANGED <<tempdir, made, prefix, suffix, base, root, wd, parent, scope>>

\* prefix and suffix default to None, which filename turns into ''; t is uuid4
Filename(i, t) ==
    /\ Idle
    /\ UNCHANGED <<used, pc>>
    /\ made[i]
    /\ last' = IF ~requires_activation(i)
               THEN Raise(Call("filename", i), "ScratchDirInactiveError")
               ELSE [Call("filename", i) EXCEPT !.ret = join(i, <<Rel(<<<<"", t, "">>>>)>>)]
    /\ UNCHANGED <<disk, tempdir, made, prefix, suffix, base, root, wd, parent, scope>>

\* ----------------------------------------------------------- the caller
\* closing the handle named() returned for e: the file is unlinked if delete.
\* A handle is followed until its file leaves the disk.
Close(e) ==
    /\ Idle
    /\ UNCHANGED <<used, pc>>
    /\ e \in disk
    /\ e.h # "none"
    /\ disk' = IF e.h = "delete" THEN disk \ {e} ELSE (disk \ {e}) \cup {[e EXCEPT !.h = "none"]}
    /\ last' = [NoCall EXCEPT !.op = "close", !.ret = e.path]
    /\ UNCHANGED <<tempdir, made, prefix, suffix, base, root, wd, parent, scope>>

\* creating by hand what the path join() or filename() just returned names: the
\* directory a later dir argument names, or a file
Create ==
    /\ last.op \in {"filename", "join"}
    /\ UNCHANGED <<used, pc>>
    /\ last.out = "ok"
    /\ Room
    /\ IsDir(Dirname(last.ret))
    /\ ~Exists(last.ret)
    /\ disk' = disk \cup {Entry(last.ret, IF last.op = "join" THEN "dir" ELSE "file", "hand")}
    /\ last' = [Call("hand", last.inst) EXCEPT !.ret = last.ret]
    /\ UNCHANGED <<tempdir, made, prefix, suffix, base, root, wd, parent, scope>>

\* the caller takes the value returned or the error raised and goes on
Return ==
    /\ ~Idle
    /\ UNCHANGED <<used, pc>>
    /\ last' = NoCall
    /\ UNCHANGED <<disk, tempdir, made, prefix, suffix, base, root, wd, parent, scope>>

\* something other than teardown removing a working directory from disk
Remove(i) ==
    /\ Idle
    /\ UNCHANGED <<used, pc>>
    /\ made[i]
    /\ is_active(i)
    /\ disk' = {e \in disk : ~IsPrefix(wd[i], e.path)}
    /\ last' = Call("rmtree", i)
    /\ UNCHANGED <<tempdir, made, prefix, suffix, base, root, wd, parent, scope>>

\* ------------------------------------------------------- specification
WdArgs == {DEFAULT_WD, PreWd}
ChildPrefixes == {"child-"}
JoinArgs == {<<NoArg, Rel(<<Foo>>)>>, <<Rel(<<Foo>>), Abs(DefaultTmp)>>}

Init ==
    /\ disk = {Entry(DefaultTmp, "dir", "os"), Entry(TestRoot, "dir", "os"),
               Entry(PreWd, "dir", "os")}
    /\ tempdir = NoneVal
    /\ made = [i \in Inst |-> FALSE]
    /\ prefix = [i \in Inst |-> ""]
    /\ suffix = [i \in Inst |-> SCRATCH_SUFFIX]
    /\ base = [i \in Inst |-> NoneVal]
    /\ root = [i \in Inst |-> NoneVal]
    /\ wd = [i \in Inst |-> DEFAULT_WD]
    /\ parent = [i \in Inst |-> 0]
    /\ scope = [i \in Inst |-> "out"]
    /\ last = NoCall
    /\ used = [i \in Inst |-> {}]
    /\ pc = [i \in Inst |-> "idle"]

Next ==
    \/ \E j \in Inst, r \in Roots, w \in WdArgs : Construct(j, r, w)
    \/ \E i \in Inst : IsActive(i)
    \/ \E i \in Inst : Setup(i)
    \/ \E i \in Inst : Teardown(i)
    \/ \E i \in Inst : Enter(i)
    \/ \E i \in Inst, exc \in BOOLEAN : Exit(i, exc)
    \/ \E i \in Inst, pre \in ChildPrefixes : Child(i, pre)
    \/ \E i \in Inst, ps \in JoinArgs : Join(i, ps)
    \/ \E i \in Inst, dir \in DirArgs : File(i, dir)
    \/ \E i \in Inst, dir \in DirArgs, delete \in BOOLEAN : Named(i, dir, delete)
    \/ \E i \in Inst, dir \in DirArgs : Spooled(i, dir)
    \/ \E i \in Inst, dir \in DirArgs, return_fd \in BOOLEAN : Secure(i, dir, return_fd)
    \/ \E i \in Inst, dir \in DirArgs : Directory(i, dir)
    \/ \E i \in Inst, t \in Tok : Filename(i, t)
    \/ \E e \in disk : Close(e)
    \/ Create
    \/ Return
    \/ \E i \in Inst : Remove(i)

Spec == Init /\ [][Next]_vars

\* ------------------------------------------- reuse: setup/teardown cycles
\* teardown(), keeping the record of the working directories it has deleted
TeardownUsed(i) ==
    /\ Idle
    /\ made[i]
    /\ teardown(i, Call("teardown", i))
    /\ used' = IF last'.out = "ok" THEN [used EXCEPT ![i] = @ \cup {wd[i]}] ELSE used
    /\ UNCHANGED <<tempdir, made, prefix, suffix, base, root, parent, scope, pc>>

NextReuse ==
    \/ \E j \in Inst, r \in Roots, w \in WdArgs : Construct(j, r, w)
    \/ \E i \in Inst, pre \in ChildPrefixes : Child(i, pre)
    \/ \E i \in Inst : Setup(i)
    \/ \E i \in Inst : TeardownUsed(i)
    \/ \E i \in Inst : IsActive(i)
    \/ Return

SpecReuse == Init /\ [][NextReuse]_vars

\* ------------------------------- setup() of several spaces, run by threads
\* the roots spaces are constructed with: a directory of the caller's, the
\* platform's temp directory named outright, or None, the default
RaceRoots == {TestRoot, DefaultTmp, NoneVal}

\* ScratchDir(root=r): no base, no wd
ConstructRooted(j, r) ==
    /\ Idle
    /\ New(j, "", SCRATCH_SUFFIX, NoneVal, r, DEFAULT_WD, 0)
    /\ UNCHANGED <<disk, tempdir, scope, last, used, pc>>

\* the first statement of setup(): tempfile.tempdir = self.root
SetupTempdir(i) ==
    /\ Idle
    /\ made[i]
    /\ pc[i] = "idle"
    /\ tempdir' = root[i]
    /\ pc' = [pc EXCEPT ![i] = "wrote"]
    /\ UNCHANGED <<disk, made, prefix, suffix, base, root, wd, parent, scope, last, used>>

\* the second: self.wd = self.wd or tempfile.mkdtemp(suffix, prefix, base), where
\* mkdtemp with dir None takes gettempdir(), which reads tempfile.tempdir as it
\* is now; an exception of mkdtemp ends the call with wd as it was
SetupMkdtemp(i) ==
    /\ Idle
    /\ pc[i] = "wrote"
    /\ pc' = [pc EXCEPT ![i] = "idle"]
    /\ IF Truthy(wd[i])
       THEN UNCHANGED <<disk, tempdir, wd>>
       ELSE LET d == IF base[i] = NoneVal THEN GetTempDir(tempdir) ELSE base[i]
            IN /\ tempdir' = IF base[i] = NoneVal THEN d ELSE tempdir
               /\ IF MkErr(d, prefix[i], suffix[i]) # "ok"
                  THEN UNCHANGED <<disk, wd>>
                  ELSE \E n \in FreeNames(d, prefix[i], suffix[i]) :
                           /\ disk' = disk \cup {Entry(Append(d, n), "dir", "setup")}
                           /\ wd' = [wd EXCEPT ![i] = Append(d, n)]
    /\ UNCHANGED <<made, prefix, suffix, base, root, parent, scope, last, used>>

NextRace ==
    \/ \E j \in Inst, r \in RaceRoots : ConstructRooted(j, r)
    \/ \E i \in Inst : SetupTempdir(i)
    \/ \E i \in Inst : SetupMkdtemp(i)
    \/ \E i \in Inst : Teardown(i)
    \/ Return

SpecRace == Init /\ [][NextRace]_vars

\* ================================================================ claims
Rest == <<tempdir, made, prefix, suffix, base, root, parent, scope>>
Guarded == {"teardown", "child", "file", "named", "spooled", "secure", "directory",
            "filename", "join"}
Creating == {"file", "named", "secure", "directory"}
OnDisk(p) == Truthy(p) /\ p \in Paths(disk)

\* C1: a call of teardown, child, file, named, spooled, secure, directory,
\* filename or join on a space that is not active (wd unset, or set but missing
\* on disk) raises ScratchDirInactiveError and changes nothing.
C1_InactiveRaises ==
    [][\A i \in Inst :
         (last'.op \in Guarded /\ last'.inst = i /\ ~OnDisk(wd[i]))
         => (last'.out = "ScratchDirInactiveError" /\ UNCHANGED <<disk, wd, Rest>>)]_vars

\* a guarded call was refused on a space whose wd is set but gone from disk
C1_Witness ==
    /\ last.op = "named"
    /\ last.out = "ScratchDirInactiveError"
    /\ Truthy(wd[last.inst])
    /\ ~Exists(wd[last.inst])

\* C2 as stated: after any setup() or scope entry that returns without error the
\* space is active and wd names a directory on disk.
C2_SetupActivates ==
    (last.op \in {"setup", "enter"} /\ last.out = "ok")
    => (is_active(last.inst) /\ IsDir(wd[last.inst]))

\* C2 amended: after a setup() or scope entry that returns without error and
\* found wd unset, or found the directory wd names on disk, the space is active
\* and wd names a directory on disk.
C2_SetupActivatesUnlessStale ==
    (last.op \in {"setup", "enter"} /\ last.out = "ok" /\ (~Truthy(last.pre) \/ last.live))
    => (OnDisk(wd[last.inst]) /\ IsDir(wd[last.inst]))

\* setup has just created the working directory of a space that had none
C2_Witness ==
    /\ last.op = "setup"
    /\ last.out = "ok"
    /\ ~Truthy(last.pre)
    /\ wd[last.inst] = last.ret
    /\ IsDir(last.ret)

\* C3: after a teardown() or scope exit that returns without error the space
\* is not active and the path that was its working directory is not on disk.
C3_TeardownDeactivates ==
    (last.op \in {"teardown", "exit"} /\ last.out = "ok")
    => (~OnDisk(wd[last.inst]) /\ last.pre \notin Paths(disk))

\* teardown has just succeeded on a space that was active
C3_Witness ==
    /\ last.op = "teardown"
    /\ last.out = "ok"
    /\ Truthy(last.pre)
    /\ last.live

\* C4: scope entry calls setup() once and yields the space itself; scope exit
\* calls teardown() once, whether or not the body raised, and has the effect of
\* teardown(): on an active space the tree is deleted and wd reset, or the
\* delete fails and wd stays; on an inactive one ScratchDirInactiveError.
C4_ScopeIsSetupTeardown ==
    [][\A i \in Inst :
         /\ (last'.op = "enter" /\ last'.inst = i)
            => /\ scope[i] = "out"
               /\ last'.calls = <<"setup">>
               /\ tempdir' \in {root[i], GetTempDir(root[i])}
               /\ IF last'.out = "ok"
                  THEN /\ scope'[i] = "in"
                       /\ last'.yield = i
                       /\ IF Truthy(wd[i])
                          THEN UNCHANGED <<disk, wd>>
                          ELSE /\ ~Exists(wd'[i])
                               /\ disk' = disk \cup {Entry(wd'[i], "dir", "setup")}
                  ELSE UNCHANGED <<disk, wd, scope>>
         /\ (scope[i] = "in" /\ scope'[i] = "out")
            => (last'.op = "exit" /\ last'.inst = i)
         /\ (last'.op = "exit" /\ last'.inst = i)
            => /\ scope[i] = "in" /\ scope'[i] = "out"
               /\ last'.calls = <<"teardown">>
               /\ IF OnDisk(wd[i])
                  THEN \/ /\ last'.out = "ok"
                          /\ wd'[i] = DEFAULT_WD
                          /\ disk' = {e \in disk : ~IsPrefix(wd[i], e.path)}
                       \/ /\ last'.out = "OSError"
                          /\ wd'[i] = wd[i]
                          /\ Exists(wd[i])'
                  ELSE /\ last'.out = "ScratchDirInactiveError"
                       /\ UNCHANGED <<disk, wd>>]_vars

\* the scope of an active space was left after its body raised, and teardown
\* deleted the working directory
C4_Witness ==
    /\ last.op = "exit"
    /\ last.exc
    /\ last.calls = <<"teardown">>
    /\ last.out = "ok"
    /\ last.live
    /\ last.pre \notin Paths(disk)

\* C5: after a teardown() or scope exit that returns without error nothing is
\* on disk under the path that was the working directory.
C5_TeardownRemovesSubtree ==
    (last.op \in {"teardown", "exit"} /\ last.out = "ok")
    => Under(disk, last.pre) = {}

\* teardown has just succeeded on a space that held the working directory of a
\* child and a file from named(delete=False) that was still open
C5_Witness ==
    /\ last.op = "teardown"
    /\ last.out = "ok"
    /\ <<"named", "keep">> \in last.had
    /\ <<"setup", "none">> \in last.had
    /\ Under(disk, last.pre) = {}

\* C6 as stated: whenever a space obtained from child() has wd set, that
\* directory is a strict descendant of its parent's working directory.
C6_ChildUnderParentWd ==
    \A j \in Inst :
        (made[j] /\ parent[j] # 0 /\ Truthy(wd[j])) => is_pardir(wd[parent[j]], wd[j])

\* C6 amended: whenever a space obtained from child() has wd set, that directory
\* is a strict descendant of its base, the working directory its parent had when
\* child() was called.
C6_ChildUnderBase ==
    \A j \in Inst :
        (made[j] /\ parent[j] # 0 /\ Truthy(wd[j])) => is_pardir(base[j], wd[j])

\* a child is set up in the working directory of its active parent
C6_Witness ==
    \E j \in Inst :
        /\ made[j]
        /\ parent[j] # 0
        /\ is_active(j)
        /\ is_active(parent[j])
        /\ base[j] = wd[parent[j]]
        /\ is_pardir(wd[parent[j]], wd[j])

\* C7: after a scope has been entered and exited without error, wd is None.
C7_WdIsNoneAfterScope ==
    (last.op = "exit" /\ last.out = "ok") => wd[last.inst] = NoneVal

\* C8: an is_active query on a space whose wd is set and not on disk returns
\* false; every query returns what the disk holds at that moment.
C8_IsActiveReadsDisk ==
    (last.op = "is_active")
    => /\ (Truthy(wd[last.inst]) /\ ~Exists(wd[last.inst])) => ~last.act
       /\ last.act = OnDisk(wd[last.inst])

\* is_active has just returned false inside the scope of a space whose working
\* directory was removed, by something other than its teardown, while wd is set
C8_Witness ==
    /\ last.op = "is_active"
    /\ ~last.act
    /\ scope[last.inst] = "in"
    /\ parent[last.inst] = 0
    /\ Truthy(wd[last.inst])
    /\ ~Exists(wd[last.inst])

\* the call just made names, with its dir argument, a subdirectory missing
\* under the working directory of the active space i
MissingDir(i) ==
    /\ last'.inst = i
    /\ OnDisk(wd[i])
    /\ ~last'.arg.none
    /\ ~last'.arg.abs
    /\ ~Exists(wd[i] \o last'.arg.segs)

\* C9 as stated: file, named, spooled, secure and directory, called on an active
\* space with a dir naming a missing subdirectory, fail with a not-found error
\* and leave the disk unchanged.
C9_MissingDirNotFound ==
    [][\A i \in Inst :
         (last'.op \in Creating \cup {"spooled"} /\ MissingDir(i))
         => (last'.out = "FileNotFoundError" /\ UNCHANGED disk)]_vars

\* C9 amended: file, named, secure and directory, called on an active space
\* with a dir naming a missing subdirectory, fail with a not-found error;
\* spooled returns without error; none of the five changes the disk.
C9_MissingDirNotFoundButSpooled ==
    [][\A i \in Inst :
         /\ (last'.op \in Creating /\ MissingDir(i))
            => (last'.out = "FileNotFoundError" /\ UNCHANGED <<disk, wd>>)
         /\ (last'.op = "spooled" /\ MissingDir(i))
            => (last'.out = "ok" /\ UNCHANGED <<disk, wd>>)]_vars

\* named was refused for a dir that is missing, and the dir is still missing
C9_Witness ==
    /\ last.op = "named"
    /\ last.arg = Rel(<<Foo>>)
    /\ last.out = "FileNotFoundError"
    /\ is_active(last.inst)
    /\ ~Exists(Append(wd[last.inst], Foo))

\* C10: when teardown() or a scope exit finds the space active, either the
\* delete succeeds and wd is reset, or it fails, the error reaches the caller
\* and wd keeps its value; wd is reset only when the path is gone from disk.
C10_WdClearedOnlyOnSuccess ==
    (last.op \in {"teardown", "exit"} /\ Truthy(last.pre) /\ last.live)
    => \/ /\ last.out = "ok"
          /\ wd[last.inst] = DEFAULT_WD
          /\ last.pre \notin Paths(disk)
       \/ /\ last.out = "OSError"
          /\ wd[last.inst] = last.pre
          /\ last.pre \in Paths(disk)

\* the delete has just failed part-way: something under wd is gone, and wd
\* still names the directory
C10_Witness ==
    /\ last.op = "teardown"
    /\ last.out = "OSError"
    /\ wd[last.inst] = last.pre
    /\ last.had # {}
    /\ Under(disk, last.pre) = {}

\* the directory a space without a working directory has setup() create in: its
\* base, or without base the temp root
SetupDir(i) == IF base[i] = NoneVal THEN GetTempDir(root[i]) ELSE base[i]

\* C11: a setup() or scope entry that finds wd set returns without error and
\* leaves wd and the disk as they are; one that finds wd unset either fails and
\* changes neither, or creates one directory that was not on disk, named
\* prefix + token + suffix inside base (the temp root without base), and assigns
\* it to wd.
C11_SetupIdempotentOnWd ==
    [][\A i \in Inst :
         (last'.op \in {"setup", "enter"} /\ last'.inst = i)
         => IF Truthy(wd[i])
            THEN /\ last'.out = "ok"
                 /\ UNCHANGED <<disk, wd>>
            ELSE IF last'.out # "ok"
            THEN UNCHANGED <<disk, wd>>
            ELSE /\ ~Exists(wd'[i])
                 /\ disk' = disk \cup {Entry(wd'[i], "dir", "setup")}
                 /\ Dirname(wd'[i]) = SetupDir(i)
                 /\ \E t \in Tok : wd'[i][Len(wd'[i])] = <<prefix[i], t, suffix[i]>>
                 /\ \A k \in Inst \ {i} : wd'[k] = wd[k]]_vars

\* setup has just returned on a space whose wd an earlier setup had created and
\* that was active: wd is what it was, and still on disk
C11_Witness ==
    /\ last.op = "setup"
    /\ last.out = "ok"
    /\ Truthy(last.pre)
    /\ last.live
    /\ last.pre[Len(last.pre)][2] \in Tok
    /\ wd[last.inst] = last.pre
    /\ Exists(last.pre)

C13_WdUnderOwnRoot ==
    \A i \in Inst :
        (made[i] /\ base[i] = NoneVal /\ Truthy(wd[i]))
        => Dirname(wd[i]) = GetTempDir(root[i])
====
